---- MODULE Spec2Model ----
(***************************************************************************)
(* Branch-and-Bound driver of bbpy (bbpy/bnb/bnb.py), its searching rules  *)
(* (bbpy/bnb/search.py) and the MIP instance (bbpy/instances/mip.py).      *)
(*                                                                         *)
(* Numbers.  Objective values and lower bounds are Python floats.  They    *)
(* are modelled as extended reals on the integer grid: a record            *)
(* [k |-> "fin", v |-> n], or +inf, -inf, nan, with IEEE comparison and    *)
(* subtraction.  A quotient is kept as numerator and denominator.  The     *)
(* entries of a point x are stored doubled: 0 is 0.0, 1 is 0.5, 2 is 1.0.  *)
(***************************************************************************)
EXTENDS Integers, Sequences, FiniteSets, TLC

(***************************************************************************)
(* Bounds of the model.                                                    *)
(***************************************************************************)
\* largest offset added to an objective
MaxOffset == 1
\* largest reading of the clock, in ticks
MaxTimer == 1
\* number of add calls made on a searching rule exercised alone
MaxAdds == 4

VARIABLES
    \* configuration (BnB.__init__) and the problem passed to solve
    searching_rule, lb_method, ub_method,
    time_limit, node_limit, queue_limit, abs_gap_tol, rel_gap_tol, keeptrace,
    problem,
    \* attributes of the solver set by solve
    status, node_count, best_x, best_ub, best_lb, queue, trace,
    abs_gap, rel_gap, timer,
    \* locals of solve and the position in its loop
    node, x, ub, pc, result,
    \* history: the calls of the current iteration in order, the number of
    \* nodes its filtering dropped, and the number of add, get_next and
    \* lower-bounding calls so far
    calls, n_filtered, n_add, n_get_next, n_lb_bound,
    \* history: the nodes get_next has returned so far
    dequeued

cfgvars == <<searching_rule, lb_method, ub_method, time_limit, node_limit,
             queue_limit, abs_gap_tol, rel_gap_tol, keeptrace, problem>>
vars == <<searching_rule, lb_method, ub_method, time_limit, node_limit,
          queue_limit, abs_gap_tol, rel_gap_tol, keeptrace, problem,
          status, node_count, best_x, best_ub, best_lb, queue, trace,
          abs_gap, rel_gap, timer, node, x, ub, pc, result,
          calls, n_filtered, n_add, n_get_next, n_lb_bound, dequeued>>

(***************************************************************************)
(* Python floats.                                                          *)
(***************************************************************************)
Fin(n) == [k |-> "fin", v |-> n]
PosInf == [k |-> "pinf", v |-> 0]
NegInf == [k |-> "ninf", v |-> 0]
NaN == [k |-> "nan", v |-> 0]
\* an attribute that has not been assigned yet
Unset == [k |-> "unset", v |-> 0]
None == <<>>

IsFinite(a) == a.k = "fin"

\* a < b
FLt(a, b) ==
    /\ a.k # "nan" /\ b.k # "nan"
    /\ \/ a.k = "ninf" /\ b.k # "ninf"
       \/ b.k = "pinf" /\ a.k # "pinf"
       \/ a.k = "fin" /\ b.k = "fin" /\ a.v < b.v

\* a <= b
FLe(a, b) ==
    /\ a.k # "nan" /\ b.k # "nan"
    /\ \/ a.k = b.k /\ a.v = b.v
       \/ FLt(a, b)

\* a > b
FGt(a, b) == FLt(b, a)

\* a - b
FSub(a, b) ==
    CASE a.k = "nan" \/ b.k = "nan" -> NaN
      [] a.k = "pinf" -> IF b.k = "pinf" THEN NaN ELSE PosInf
      [] a.k = "ninf" -> IF b.k = "ninf" THEN NaN ELSE NegInf
      [] b.k = "pinf" -> NegInf
      [] b.k = "ninf" -> PosInf
      [] OTHER -> Fin(a.v - b.v)

\* abs(a)
FAbs(a) ==
    CASE a.k = "nan" -> NaN
      [] a.k \in {"pinf", "ninf"} -> PosInf
      [] OTHER -> Fin(IF a.v < 0 THEN 0 - a.v ELSE a.v)

\* min(a, b) of Python: a unless b < a
FMin(a, b) == IF FLt(b, a) THEN b ELSE a

\* A quotient num / max(den, 1e-16), den >= 0 or nan.  A finite quotient keeps
\* its numerator n and denominator d; d = 0 says the denominator is the floor
\* 1e-16.
Quot(n, d) == [k |-> "fin", n |-> n, d |-> d]
QPosInf == [k |-> "pinf", n |-> 0, d |-> 1]
QNegInf == [k |-> "ninf", n |-> 0, d |-> 1]
QNaN == [k |-> "nan", n |-> 0, d |-> 1]
QUnset == [k |-> "unset", n |-> 0, d |-> 1]

FDivFloor(num, den) ==
    CASE num.k = "nan" \/ den.k = "nan" -> QNaN
      [] num.k \in {"pinf", "ninf"} /\ den.k = "pinf" -> QNaN
      [] num.k = "pinf" -> QPosInf
      [] num.k = "ninf" -> QNegInf
      [] den.k = "pinf" -> Quot(0, 1)
      [] OTHER -> Quot(num.v, den.v)

\* A tolerance is the rational n / d, d > 0.
Tol(n, d) == [n |-> n, d |-> d]

\* g > tol and g <= tol for a float g
GapGt(g, tol) == g.k = "pinf" \/ (g.k = "fin" /\ g.v * tol.d > tol.n)
GapLe(g, tol) == g.k = "ninf" \/ (g.k = "fin" /\ g.v * tol.d <= tol.n)

\* q > tol and q <= tol for a quotient q.  Over the floor 1e-16 a non-zero
\* integer numerator gives at least 1e16 in absolute value, beyond any
\* tolerance 0 <= tol < 1e16.
QuotGt(q, tol) ==
    \/ q.k = "pinf"
    \/ /\ q.k = "fin"
       /\ IF q.d = 0 THEN q.n > 0 ELSE q.n * tol.d > tol.n * q.d
QuotLe(q, tol) ==
    \/ q.k = "ninf"
    \/ /\ q.k = "fin"
       /\ IF q.d = 0 THEN q.n <= 0 ELSE q.n * tol.d <= tol.n * q.d

(***************************************************************************)
(* BnB._abs_gap, BnB._rel_gap                                              *)
(***************************************************************************)
_abs_gap(u, l) == FSub(u, l)

_rel_gap(u, l) == FDivFloor(FSub(u, l), FMin(FAbs(u), FAbs(l)))

(***************************************************************************)
(* The problem: a MIP (bbpy/instances/mip.py) whose variables are all      *)
(* binary, with bounds 0 <= x <= 1, no further constraint and the linear   *)
(* objective f(x) = c.x + b.  problem.integers is 1..problem.n.  The       *)
(* problems are those of the two end-to-end properties: one binary         *)
(* variable, and two binary variables.                                     *)
(***************************************************************************)
\* number of negative coefficients among c[1..m]
RECURSIVE NegCount(_, _)
NegCount(c, m) ==
    IF m = 0 THEN 0 ELSE NegCount(c, m - 1) + (IF c[m] < 0 THEN 1 ELSE 0)

\* n binary variables, coefficients drawn from coefs, and the offset
\* b = b0 + (the least b that keeps f >= 0)
ProblemsOf(n, coefs, offsets) ==
    { [n |-> n, c |-> c, b |-> NegCount(c, n) + b0] :
          c \in [1..n -> coefs], b0 \in offsets }

\* f(x) = x, and f(x) = x1 + x2
CountProblems == ProblemsOf(1, {1}, {0}) \cup ProblemsOf(2, {1}, {0})

\* every sign pattern of c, every offset
OneVarProblems == ProblemsOf(1, {0 - 1, 1}, 0..MaxOffset)
TwoVarProblems == ProblemsOf(2, {0 - 1, 1}, 0..MaxOffset)

\* all vectors with entries 0.0, 0.5, 1.0 and the binary ones among them
Vectors(n) == [1..n -> {0, 1, 2}]
Points(n) == [1..n -> {0, 2}]

\* LinearFunction.value: A @ x + b, entries of x stored doubled
RECURSIVE Dot2(_, _, _)
Dot2(c, v, m) == IF m = 0 THEN 0 ELSE Dot2(c, v, m - 1) + c[m] * v[m]

f_value(p, v) == (Dot2(p.c, v, p.n) \div 2) + p.b

\* MIP.is_feasible: g(x) <= tol, lb <= x <= ub hold of every vector; cbin
\* asks every entry to be 0.0 or 1.0
is_feasible(p, v) == \A i \in 1..p.n : v[i] \in {0, 2}

\* mutant of MIP.value: the objective without the feasibility test
value_unchecked(p, v) == Fin(f_value(p, v))

\* MIP.value
value(p, v) == IF is_feasible(p, v) THEN Fin(f_value(p, v)) ELSE PosInf

(***************************************************************************)
(* Nodes and regions (bbpy/bnb/node.py, MIPRegion)                         *)
(***************************************************************************)
MIPRegion(zero, one) == [integers_to_zero |-> zero, integers_to_one |-> one]

root_region == MIPRegion(<<>>, <<>>)

\* Node.__init__
Node(region, level, v, lb) ==
    [status |-> "open", region |-> region, level |-> level, x |-> v, lb |-> lb]

\* what tells one node object from another: its region and its level
NodeId(nd) == <<nd.region, nd.level>>

Range(s) == {s[i] : i \in DOMAIN s}

\* the points of a region and the least objective value over them
RegionPoints(p, r) ==
    { v \in Points(p.n) :
        /\ \A i \in Range(r.integers_to_zero) : v[i] = 0
        /\ \A i \in Range(r.integers_to_one) : v[i] = 2 }

MinOf(S) == CHOOSE m \in S : \A y \in S : m <= y

RegionMin(p, r) == MinOf({f_value(p, v) : v \in RegionPoints(p, r)})

(***************************************************************************)
(* MIPBranchingRule.branch                                                 *)
(***************************************************************************)
Dist(a, b) == IF a < b THEN b - a ELSE a - b

Unfixed(p, r) ==
    (1..p.n) \ (Range(r.integers_to_zero) \cup Range(r.integers_to_one))

\* sorted(..., key=|x[i] - 0.5|)[0]: an unfixed index of least key; which one
\* among equal keys follows the iteration order of a Python set
BranchIndices(p, nd) ==
    { i \in Unfixed(p, nd.region) :
        \A j \in Unfixed(p, nd.region) : Dist(nd.x[i], 1) <= Dist(nd.x[j], 1) }

\* mutant of the children: the second region is built like the first, with i
\* added to integers_to_zero
ChildrenBothZero(nd, i) ==
    << Node(MIPRegion(Append(nd.region.integers_to_zero, i),
                      nd.region.integers_to_one),
            nd.level + 1, [nd.x EXCEPT ![i] = 0], nd.lb),
       Node(MIPRegion(Append(nd.region.integers_to_zero, i),
                      nd.region.integers_to_one),
            nd.level + 1, [nd.x EXCEPT ![i] = 2], nd.lb) >>

\* the two children made for index i
Children(nd, i) ==
    << Node(MIPRegion(Append(nd.region.integers_to_zero, i),
                      nd.region.integers_to_one),
            nd.level + 1, [nd.x EXCEPT ![i] = 0], nd.lb),
       Node(MIPRegion(nd.region.integers_to_zero,
                      Append(nd.region.integers_to_one, i)),
            nd.level + 1, [nd.x EXCEPT ![i] = 2], nd.lb) >>

\* the lists branch(node) can return
branch(p, nd) ==
    IF p.n = Len(nd.region.integers_to_zero) + Len(nd.region.integers_to_one)
    THEN {<<>>}
    ELSE {Children(nd, i) : i \in BranchIndices(p, nd)}

(***************************************************************************)
(* Bounding methods.  The solver only sees their contract (bound.py); what *)
(* a method may return is drawn from a set chosen by its kind.             *)
(***************************************************************************)
\* the bounds a method reports: -inf, or a value in the objective's range
MaxF(p) == CHOOSE m \in {f_value(p, v) : v \in Points(p.n)} :
               \A v \in Points(p.n) : f_value(p, v) <= m
LbVals(p) == {NegInf} \cup {Fin(n) : n \in 0..MaxF(p)}

\* v fixes the entries the region fixes, as the relaxation's constraints ask
InRegion(v, r) ==
    /\ \A i \in Range(r.integers_to_zero) : v[i] = 0
    /\ \A i \in Range(r.integers_to_one) : v[i] = 2

\* lb is a lower bound of the objective over the region
ValidLb(p, r, lb) == FLe(lb, Fin(RegionMin(p, r)))

\* LowerBoundingMethod.bound: the pairs <<node.lb, node.x>> it may set.
\* The point is one of the node's region: MIPLowerBoundingMethod.bound asks
\* x[i] == 0 and x[i] == 1 of the fixed entries and 0 <= x[i] <= 1 of the
\* others.
\*   "any"        any bound
\*   "valid"      a valid lower bound
\*   "relaxation" a valid lower bound, with lb = f(x) when the point is
\*                feasible (a relaxation solved to optimality)
\*   "root_zero"  lb = 0 at x = 0 for the root, any bound for the others
lb_bound(kind, p, nd) ==
    { pair \in LbVals(p) \X {v \in Vectors(p.n) : InRegion(v, nd.region)} :
        CASE kind = "any" -> TRUE
          [] kind = "valid" -> ValidLb(p, nd.region, pair[1])
          [] kind = "relaxation" ->
                /\ ValidLb(p, nd.region, pair[1])
                /\ is_feasible(p, pair[2]) => pair[1] = Fin(f_value(p, pair[2]))
          [] kind = "root_zero" ->
                nd.level = 0 => pair = <<Fin(0), [i \in 1..p.n |-> 0]>> }

\* UpperBoundingMethod.bound: the points it may return.
\*   "any"       any point
\*   "feasible"  a feasible point of the problem
ub_bound(kind, p, nd) ==
    IF kind = "feasible" THEN Points(p.n) ELSE Vectors(p.n)

(***************************************************************************)
(* Searching rules (bbpy/bnb/search.py).  Every rule's add appends;        *)
(* get_next pops the index the rule selects.                               *)
(***************************************************************************)
SearchingRules ==
    {"BestFirst", "BreadthFirst", "DepthFirst", "WorstFirst", "Random"}

add(q, nd) == Append(q, nd)

\* mutant of the removal: queue[i] is read and left in place
PopKeep(q, i) == q

\* list.pop(i), 1-based
Pop(q, i) == SubSeq(q, 1, i - 1) \o SubSeq(q, i + 1, Len(q))

\* mutants of the two selections: the last index of the extreme key
BestFirstLastIndex(q) ==
    CHOOSE i \in 1..Len(q) :
        /\ \A j \in 1..Len(q) : ~FLt(q[j].lb, q[i].lb)
        /\ \A j \in (i + 1)..Len(q) : FLt(q[i].lb, q[j].lb)
WorstFirstLastIndex(q) ==
    CHOOSE i \in 1..Len(q) :
        /\ \A j \in 1..Len(q) : ~FGt(q[j].lb, q[i].lb)
        /\ \A j \in (i + 1)..Len(q) : FGt(q[i].lb, q[j].lb)

\* min(range(len(queue)), key=lb): the first index whose key no other beats
BestFirstIndex(q) ==
    CHOOSE i \in 1..Len(q) :
        /\ \A j \in 1..Len(q) : ~FLt(q[j].lb, q[i].lb)
        /\ \A j \in 1..(i - 1) : FLt(q[i].lb, q[j].lb)

\* max(range(len(queue)), key=lb)
WorstFirstIndex(q) ==
    CHOOSE i \in 1..Len(q) :
        /\ \A j \in 1..Len(q) : ~FGt(q[j].lb, q[i].lb)
        /\ \A j \in 1..(i - 1) : FGt(q[i].lb, q[j].lb)

\* mutant of the breadth-first selection: pop() for pop(0)
BreadthFirstLastIndex(q) == Len(q)

\* queue.pop(0)
BreadthFirstIndex(q) == 1

\* mutant of the depth-first selection: pop(0) for pop()
DepthFirstFirstIndex(q) == 1

\* queue.pop()
DepthFirstIndex(q) == Len(q)

\* random.randint(0, len(queue) - 1)
RandomIndices(q) == 1..Len(q)

\* the indices get_next may pop
get_next(rule, q) ==
    CASE rule = "BestFirst" -> {BestFirstIndex(q)}
      [] rule = "WorstFirst" -> {WorstFirstIndex(q)}
      [] rule = "BreadthFirst" -> {BreadthFirstIndex(q)}
      [] rule = "DepthFirst" -> {DepthFirstIndex(q)}
      [] rule = "Random" -> RandomIndices(q)

(***************************************************************************)
(* Configuration values (BnB.__init__)                                     *)
(***************************************************************************)
\* sys.maxsize: beyond every count the model reaches, it compares with them
\* as +inf does
maxsize == PosInf

\* 1e-8, the default of abs_gap_tol and rel_gap_tol
DefaultTol == Tol(1, 100000000)

Statuses ==
    {"running", "optimal", "relative_optimal", "infeasible", "unbounded",
     "time_limit", "iter_limit", "memory_limit", "error"}

(***************************************************************************)
(* BnB.solve                                                               *)
(***************************************************************************)
\* BnB.__init__ and the problem passed to solve
Configure(rules, lbms, ubms, tls, nls, qls, atols, rtols, kts, probs) ==
    /\ searching_rule \in rules
    /\ lb_method \in lbms
    /\ ub_method \in ubms
    /\ time_limit \in tls
    /\ node_limit \in nls
    /\ queue_limit \in qls
    /\ abs_gap_tol \in atols
    /\ rel_gap_tol \in rtols
    /\ keeptrace \in kts
    /\ problem \in probs

\* lines 169-176: the attributes are initialised; nothing has been called
InitAttributes ==
    /\ status = "running"
    /\ node_count = 0
    /\ best_x = None
    /\ best_ub = PosInf
    /\ best_lb = NegInf
    /\ trace = <<>>
    /\ abs_gap = Unset
    /\ rel_gap = QUnset
    /\ timer = Unset
    /\ node = None
    /\ x = None
    /\ ub = Unset
    /\ result = None
    /\ calls = <<>>
    /\ n_filtered = 0
    /\ n_get_next = 0
    /\ n_lb_bound = 0
    /\ dequeued = {}

\* lines 169-185: solve has initialised its attributes and queued the root
InitSolve(rules, lbms, ubms, tls, nls, qls, atols, rtols, kts, probs) ==
    /\ Configure(rules, lbms, ubms, tls, nls, qls, atols, rtols, kts, probs)
    /\ InitAttributes
    /\ queue = add(<<>>, Node(root_region, 0, None, NegInf))
    /\ n_add = 1
    /\ pc = "get_next"

\* line 194: node = self.searching_rule.get_next(self.queue).  On an empty
\* queue get_next raises and solve takes no further step.
GetNext ==
    /\ pc = "get_next"
    /\ status = "running"
    /\ Len(queue) > 0
    /\ \E i \in get_next(searching_rule, queue) :
          /\ node' = queue[i]
          /\ queue' = Pop(queue, i)
    /\ calls' = <<"get_next">>
    /\ dequeued' = dequeued \cup {NodeId(node')}
    /\ n_get_next' = n_get_next + 1
    /\ pc' = "lb_bound"
    /\ UNCHANGED <<cfgvars, status, node_count, best_x, best_ub, best_lb,
                   trace, abs_gap, rel_gap, timer, x, ub, result,
                   n_filtered, n_add, n_lb_bound>>

\* line 197: self.lb_method.bound(node)
LowerBound ==
    /\ pc = "lb_bound"
    /\ \E pair \in lb_bound(lb_method, problem, node) :
          node' = [node EXCEPT !.lb = pair[1], !.x = pair[2]]
    /\ calls' = Append(calls, "lb_bound")
    /\ n_lb_bound' = n_lb_bound + 1
    /\ pc' = "prune"
    /\ UNCHANGED <<cfgvars, dequeued, status, node_count, best_x, best_ub, best_lb,
                   queue, trace, abs_gap, rel_gap, timer, x, ub, result,
                   n_filtered, n_add, n_get_next>>

\* mutants of the pruning test: the comparison turned round; >= for >
PrunedInverted(nd, bub) == FLt(nd.lb, bub)
PrunedOrEqual(nd, bub) == FLe(bub, nd.lb)

\* line 200: if node.lb > self.best_ub
Pruned(nd, bub) == FGt(nd.lb, bub)

\* lines 200-203: the pruning test
PruningTest ==
    /\ pc = "prune"
    /\ IF Pruned(node, best_ub)
       THEN /\ node' = [node EXCEPT !.status = "pruned"]
            /\ pc' = "finish"
       ELSE /\ node' = [node EXCEPT !.status = "processed"]
            /\ pc' = "ub_eval"
    /\ UNCHANGED <<cfgvars, dequeued, status, node_count, best_x, best_ub, best_lb,
                   queue, trace, abs_gap, rel_gap, timer, x, ub, result,
                   calls, n_filtered, n_add, n_get_next, n_lb_bound>>

\* lines 206-211: the candidate point and its value
UpperBound ==
    /\ pc = "ub_eval"
    /\ IF is_feasible(problem, node.x)
       THEN /\ x' = node.x
            /\ ub' = node.lb
            /\ calls' = Append(calls, "is_feasible")
       ELSE \E v \in ub_bound(ub_method, problem, node) :
               /\ x' = v
               /\ ub' = value(problem, v)
               /\ calls' = calls \o <<"is_feasible", "ub_bound", "value">>
    /\ pc' = "ub_update"
    /\ UNCHANGED <<cfgvars, dequeued, status, node_count, best_x, best_ub, best_lb,
                   queue, trace, abs_gap, rel_gap, timer, node, result,
                   n_filtered, n_add, n_get_next, n_lb_bound>>

\* mutants of the filter: nothing dropped; < for <=
FilterNone(q, bub) == q
RECURSIVE FilterStrict(_, _)
FilterStrict(q, bub) ==
    IF q = <<>> THEN <<>>
    ELSE IF FLt(Head(q).lb, bub)
         THEN <<Head(q)>> \o FilterStrict(Tail(q), bub)
         ELSE FilterStrict(Tail(q), bub)

\* lines 218-222: the queued nodes with lb <= best_ub, in order
RECURSIVE Filter(_, _)
Filter(q, bub) ==
    IF q = <<>> THEN <<>>
    ELSE IF FLe(Head(q).lb, bub)
         THEN <<Head(q)>> \o Filter(Tail(q), bub)
         ELSE Filter(Tail(q), bub)

\* mutant of the improvement test: != for <
ImprovesOrDiffers(u, bub) == u # bub

\* mutant of the improvement test: <= for <
ImprovesOrEqual(u, bub) == FLe(u, bub)

\* line 214: if ub < self.best_ub
Improves(u, bub) == FLt(u, bub)

\* lines 214-222: the incumbent update
UpperBoundUpdate ==
    /\ pc = "ub_update"
    /\ IF Improves(ub, best_ub)
       THEN /\ node' = [node EXCEPT !.status = "feasible"]
            /\ best_x' = x
            /\ best_ub' = ub
            /\ queue' = Filter(queue, ub)
            /\ n_filtered' = Len(queue) - Len(queue')
       ELSE UNCHANGED <<node, best_x, best_ub, queue, n_filtered>>
    /\ pc' = "branch"
    /\ UNCHANGED <<cfgvars, dequeued, status, node_count, best_lb, trace, abs_gap,
                   rel_gap, timer, x, ub, result, calls, n_add, n_get_next,
                   n_lb_bound>>

\* mutant of the branching test: every node that is not pruned is branched
MustBranchAlways(bub, nd, atol, rtol) == TRUE

\* mutant of the branching test: or for and
MustBranchEither(bub, nd, atol, rtol) ==
    \/ GapGt(_abs_gap(bub, nd.lb), atol)
    \/ QuotGt(_rel_gap(bub, nd.lb), rtol)

\* lines 225-228: the branching test
MustBranch(bub, nd, atol, rtol) ==
    /\ GapGt(_abs_gap(bub, nd.lb), atol)
    /\ QuotGt(_rel_gap(bub, nd.lb), rtol)

\* lines 225-230: the branching operation; the children are appended with
\* list.extend
Branching ==
    /\ pc = "branch"
    /\ IF MustBranch(best_ub, node, abs_gap_tol, rel_gap_tol)
       THEN \E child_nodes \in branch(problem, node) :
               /\ queue' = queue \o child_nodes
               /\ calls' = Append(calls, "branch")
       ELSE UNCHANGED <<queue, calls>>
    /\ pc' = "finish"
    /\ UNCHANGED <<cfgvars, dequeued, status, node_count, best_x, best_ub, best_lb,
                   trace, abs_gap, rel_gap, timer, node, x, ub, result,
                   n_filtered, n_add, n_get_next, n_lb_bound>>

\* lines 233-236: min(qnode.lb for qnode in queue), or best_ub
RECURSIVE MinLb(_)
MinLb(q) ==
    IF Len(q) = 1 THEN q[1].lb
    ELSE LET m == MinLb(SubSeq(q, 1, Len(q) - 1))
         IN  IF FLt(q[Len(q)].lb, m) THEN q[Len(q)].lb ELSE m

\* mutant of the lower bound update: without the else branch best_lb keeps
\* its value on an empty queue
LowerBoundUpdateNoElse(q, bub) == IF Len(q) > 0 THEN MinLb(q) ELSE best_lb

LowerBoundUpdate(q, bub) == IF Len(q) > 0 THEN MinLb(q) ELSE bub

\* mutant of the counter update: = 1 for += 1
NodeCountAssign(nc) == 1

\* line 239: self.node_count += 1
NodeCountUpdate(nc) == nc + 1

\* mutant of the status update: an if / elif chain, the first check that
\* holds decides
StatusUpdateFirstMatch(s, t, nc, ql, ag, rg) ==
    IF FLe(time_limit, t) THEN "time_limit"
    ELSE IF FLe(node_limit, Fin(nc)) THEN "iter_limit"
    ELSE IF FLe(queue_limit, Fin(ql)) THEN "memory_limit"
    ELSE IF GapLe(ag, abs_gap_tol) THEN "relative_optimal"
    ELSE IF QuotLe(rg, rel_gap_tol) THEN "relative_optimal"
    ELSE IF ql = 0 THEN "optimal"
    ELSE s

\* mutant of the status update: an exhausted queue without incumbent is
\* reported INFEASIBLE
StatusUpdateInfeasible(s, t, nc, ql, ag, rg) ==
    LET s1 == IF FLe(time_limit, t) THEN "time_limit" ELSE s
        s2 == IF FLe(node_limit, Fin(nc)) THEN "iter_limit" ELSE s1
        s3 == IF FLe(queue_limit, Fin(ql)) THEN "memory_limit" ELSE s2
        s4 == IF GapLe(ag, abs_gap_tol) THEN "relative_optimal" ELSE s3
        s5 == IF QuotLe(rg, rel_gap_tol) THEN "relative_optimal" ELSE s4
        s6 == IF ql = 0
              THEN (IF best_x = None THEN "infeasible" ELSE "optimal")
              ELSE s5
    IN  s6

\* mutant of the status update: the test of the empty queue is missing
StatusUpdateNoEmptyTest(s, t, nc, ql, ag, rg) ==
    LET s1 == IF FLe(time_limit, t) THEN "time_limit" ELSE s
        s2 == IF FLe(node_limit, Fin(nc)) THEN "iter_limit" ELSE s1
        s3 == IF FLe(queue_limit, Fin(ql)) THEN "memory_limit" ELSE s2
        s4 == IF GapLe(ag, abs_gap_tol) THEN "relative_optimal" ELSE s3
        s5 == IF QuotLe(rg, rel_gap_tol) THEN "relative_optimal" ELSE s4
    IN  s5

\* mutant of the status update: node_count > node_limit for >=
StatusUpdateStrictNodeLimit(s, t, nc, ql, ag, rg) ==
    LET s1 == IF FLe(time_limit, t) THEN "time_limit" ELSE s
        s2 == IF FLt(node_limit, Fin(nc)) THEN "iter_limit" ELSE s1
        s3 == IF FLe(queue_limit, Fin(ql)) THEN "memory_limit" ELSE s2
        s4 == IF GapLe(ag, abs_gap_tol) THEN "relative_optimal" ELSE s3
        s5 == IF QuotLe(rg, rel_gap_tol) THEN "relative_optimal" ELSE s4
        s6 == IF ql = 0 THEN "optimal" ELSE s5
    IN  s6

\* lines 262-273: each check that holds overwrites the status
StatusUpdate(s, t, nc, ql, ag, rg) ==
    LET s1 == IF FLe(time_limit, t) THEN "time_limit" ELSE s
        s2 == IF FLe(node_limit, Fin(nc)) THEN "iter_limit" ELSE s1
        s3 == IF FLe(queue_limit, Fin(ql)) THEN "memory_limit" ELSE s2
        s4 == IF GapLe(ag, abs_gap_tol) THEN "relative_optimal" ELSE s3
        s5 == IF QuotLe(rg, rel_gap_tol) THEN "relative_optimal" ELSE s4
        s6 == IF ql = 0 THEN "optimal" ELSE s5
    IN  s6

\* time.time() - self.start_time: the clock never runs backwards
Clock(t) == {Fin(n) : n \in (IF t.k = "fin" THEN t.v ELSE 0)..MaxTimer}

\* mutant of the trace update: the record is written before the counter is
\* incremented
TraceUpdateBeforeCount(tr, nc, t, ql, bub, blb) ==
    IF keeptrace
    THEN Append(tr, [node_count |-> nc - 1, timer |-> t, queue_size |-> ql,
                     best_ub |-> bub, best_lb |-> blb, node |-> <<>>])
    ELSE tr

\* lines 245-255: the trace record of the iteration; node.trace is the empty
\* dict Node.__init__ sets
TraceUpdate(tr, nc, t, ql, bub, blb) ==
    IF keeptrace
    THEN Append(tr, [node_count |-> nc, timer |-> t, queue_size |-> ql,
                     best_ub |-> bub, best_lb |-> blb, node |-> <<>>])
    ELSE tr

\* lines 233-273: the end of an iteration.  node, x and ub are not read
\* again before the next iteration assigns them.
Finish ==
    /\ pc = "finish"
    /\ best_lb' = LowerBoundUpdate(queue, best_ub)
    /\ node_count' = NodeCountUpdate(node_count)
    /\ abs_gap' = _abs_gap(best_ub, best_lb')
    /\ rel_gap' = _rel_gap(best_ub, best_lb')
    /\ timer' \in Clock(timer)
    /\ trace' = TraceUpdate(trace, node_count', timer', Len(queue), best_ub,
                            best_lb')
    /\ status' = StatusUpdate(status, timer', node_count', Len(queue),
                              abs_gap', rel_gap')
    /\ pc' = IF status' = "running" THEN "get_next" ELSE "return"
    /\ node' = None
    /\ x' = None
    /\ ub' = Unset
    /\ calls' = <<>>
    /\ n_filtered' = 0
    /\ UNCHANGED <<cfgvars, dequeued, best_x, best_ub, queue, result, n_add, n_get_next,
                   n_lb_bound>>

\* lines 278-285: the Result
Return ==
    /\ pc = "return"
    /\ result' = [status |-> status, solution |-> best_x,
                  objective_value |-> best_ub, solve_time |-> timer,
                  iterations |-> node_count, trace |-> trace]
    /\ pc' = "done"
    /\ UNCHANGED <<cfgvars, dequeued, status, node_count, best_x, best_ub, best_lb,
                   queue, trace, abs_gap, rel_gap, timer, node, x, ub, calls,
                   n_filtered, n_add, n_get_next, n_lb_bound>>

Next ==
    \/ GetNext
    \/ LowerBound
    \/ PruningTest
    \/ UpperBound
    \/ UpperBoundUpdate
    \/ Branching
    \/ Finish
    \/ Return

\* every searching rule, any bounding methods, default limits and tolerances
Init ==
    InitSolve(SearchingRules, {"any"}, {"any"}, {PosInf}, {maxsize}, {maxsize},
              {DefaultTol}, {DefaultTol}, {FALSE}, CountProblems)

Spec == Init /\ [][Next]_vars

\* solve is one sequential loop: as long as a step is possible, one is taken
SpecFair == Init /\ [][Next]_vars /\ WF_vars(Next)

\* limits and tolerances vary; get_next of RandomSearch may pop any index, so
\* its runs include those of every other rule
Limits == {Fin(0), Fin(2), maxsize}
InitLimits ==
    InitSolve({"Random"}, {"any"}, {"any"}, {Fin(0), Fin(1), PosInf}, Limits,
              Limits, {DefaultTol, Tol(1, 1)}, {DefaultTol, Tol(1, 2)},
              {FALSE}, CountProblems)

SpecLimits == InitLimits /\ [][Next]_vars

\* stubbed bounding methods: valid lower bounds, feasible candidates
InitStub ==
    InitSolve(SearchingRules, {"valid", "relaxation"}, {"feasible"}, {PosInf},
              {maxsize}, {maxsize}, {DefaultTol}, {DefaultTol}, {FALSE},
              OneVarProblems \cup TwoVarProblems)

SpecStub == InitStub /\ [][Next]_vars

\* the single-variable problem f(x) = x whose root bound is lb = 0 at x = 0,
\* under every searching rule, any limits and either setting of keeptrace
InitSingle ==
    InitSolve(SearchingRules, {"root_zero"}, {"any"}, {Fin(0), Fin(1), PosInf},
              Limits, Limits, {DefaultTol, Tol(1, 1)}, {DefaultTol, Tol(1, 2)},
              {FALSE, TRUE}, ProblemsOf(1, {1}, {0}))

SpecSingle == InitSingle /\ [][Next]_vars

\* with and without the trace, and a node limit that may end the run early;
\* the trace keeps every iteration apart, so the bounding methods are the
\* stubbed ones and the rule is RandomSearch, whose runs include the others'
InitTrace ==
    InitSolve({"Random"}, {"relaxation"}, {"feasible"}, {PosInf},
              {Fin(2), maxsize}, {maxsize}, {DefaultTol}, {DefaultTol},
              {FALSE, TRUE}, CountProblems)

SpecTrace == InitTrace /\ [][Next]_vars

(***************************************************************************)
(* A searching rule exercised alone: any interleaving of add and get_next  *)
(* on one queue.  The nodes are numbered by their level, in order of       *)
(* insertion.                                                              *)
(***************************************************************************)
SearchLbs == {NegInf, Fin(0), Fin(1)}

InitSearch ==
    /\ Configure(SearchingRules, {"any"}, {"any"}, {PosInf}, {maxsize},
                 {maxsize}, {DefaultTol}, {DefaultTol}, {FALSE},
                 ProblemsOf(1, {1}, {0}))
    /\ InitAttributes
    /\ queue = <<>>
    /\ n_add = 0
    /\ pc = "search"

\* searching_rule.add(queue, node)
SearchAdd ==
    /\ pc = "search"
    /\ n_add < MaxAdds
    /\ \E lb \in SearchLbs :
          queue' = add(queue, Node(root_region, n_add, None, lb))
    /\ n_add' = n_add + 1
    /\ calls' = <<"add">>
    /\ UNCHANGED <<cfgvars, dequeued, status, node_count, best_x, best_ub, best_lb,
                   trace, abs_gap, rel_gap, timer, node, x, ub, pc, result,
                   n_filtered, n_get_next, n_lb_bound>>

\* searching_rule.get_next(queue)
SearchGetNext ==
    /\ pc = "search"
    /\ Len(queue) > 0
    /\ \E i \in get_next(searching_rule, queue) :
          /\ node' = queue[i]
          /\ queue' = Pop(queue, i)
    /\ dequeued' = dequeued \cup {NodeId(node')}
    /\ n_get_next' = n_get_next + 1
    /\ calls' = <<"get_next">>
    /\ UNCHANGED <<cfgvars, status, node_count, best_x, best_ub, best_lb,
                   trace, abs_gap, rel_gap, timer, x, ub, pc, result,
                   n_filtered, n_add, n_lb_bound>>

NextSearch ==
    \/ SearchAdd
    \/ SearchGetNext

SpecSearch == InitSearch /\ [][NextSearch]_vars

(***************************************************************************)
(* Properties                                                              *)
(***************************************************************************)
\* the least objective value over all binary combinations
Optimum(p) == MinOf({f_value(p, v) : v \in Points(p.n)})

Called(op) == \E i \in DOMAIN calls : calls[i] = op

\* an iteration has ended and the next has not begun
BetweenIterations == pc \in {"get_next", "return", "done"} /\ node_count > 0

C2_StatusPrecedence ==
    pc = "return" =>
        status =
            IF Len(queue) = 0 THEN "optimal"
            ELSE IF QuotLe(rel_gap, rel_gap_tol) \/ GapLe(abs_gap, abs_gap_tol)
                 THEN "relative_optimal"
            ELSE IF FLe(queue_limit, Fin(Len(queue))) THEN "memory_limit"
            ELSE IF FLe(node_limit, Fin(node_count)) THEN "iter_limit"
            ELSE IF FLe(time_limit, timer) THEN "time_limit"
            ELSE "running"

C2_Witness ==
    /\ pc = "return"
    /\ status = "optimal"
    /\ Len(queue) = 0
    /\ FLe(time_limit, timer)
    /\ FLe(node_limit, Fin(node_count))

\* C3: best_ub never increases; it changes only when a candidate strictly
\* below it is found, and then takes the candidate's value.
C3_BestUbStep ==
    best_ub' # best_ub =>
        /\ FLt(best_ub', best_ub)
        /\ pc = "ub_update"
        /\ FLt(ub, best_ub)
        /\ best_ub' = ub

C3_BestUbNonIncreasing == [][C3_BestUbStep]_vars

\* a finite incumbent has just been replaced by a smaller candidate
C3_Witness ==
    /\ pc = "branch"
    /\ node.status = "feasible"
    /\ IsFinite(abs_gap)
    /\ IsFinite(best_ub)
    /\ best_ub = ub

\* C4: at the end of every iteration best_lb is the least lb of the queue,
\* or best_ub when the queue is empty, and best_lb <= best_ub when both are
\* finite.
C4_BestLbBelowBestUb ==
    BetweenIterations =>
        /\ IF Len(queue) = 0 THEN best_lb = best_ub
           ELSE /\ \E i \in DOMAIN queue : queue[i].lb = best_lb
                /\ \A i \in DOMAIN queue : FLe(best_lb, queue[i].lb)
        /\ (IsFinite(best_lb) /\ IsFinite(best_ub)) => FLe(best_lb, best_ub)

C4_Witness ==
    /\ BetweenIterations
    /\ Len(queue) > 1
    /\ IsFinite(best_lb)
    /\ IsFinite(best_ub)
    /\ FLt(best_lb, best_ub)
    /\ abs_gap_tol = Tol(1, 1)

\* C5: a node whose lb exceeds best_ub after its lower-bounding call is
\* marked PRUNED, and only such a node; in its iteration nothing is called
\* on it after the lower-bounding method, and no queued node is a pruned one,
\* so none is passed to branch later.
C5_PrunedNodeNotExpanded ==
    /\ pc = "ub_eval" => (node.status = "processed" /\ ~FGt(node.lb, best_ub))
    /\ pc \in {"ub_update", "branch"} => node.status \in {"processed", "feasible"}
    /\ (pc = "finish" /\ ~Called("is_feasible"))
          => (node.status = "pruned" /\ FGt(node.lb, best_ub))
    /\ (node # None /\ node.status = "pruned")
          => (pc = "finish" /\ calls = <<"get_next", "lb_bound">>)
    /\ Called("branch") => node.status \in {"processed", "feasible"}
    /\ \A i \in DOMAIN queue : queue[i].status = "open"

C5_Witness ==
    /\ pc = "finish"
    /\ node.status = "pruned"
    /\ IsFinite(node.lb)
    /\ Len(queue) > 0

\* C6: when a candidate below best_ub is found, the queue is filtered in that
\* step, before any branching: it then holds exactly the nodes queued before
\* whose lb <= the new best_ub, in their order.
C6_FilterStep ==
    (pc = "ub_update" /\ FLt(ub, best_ub)) =>
        LET Kept(q) == FLe(q.lb, best_ub')
        IN  /\ best_ub' = ub
            /\ queue' = SelectSeq(queue, Kept)
            /\ \A i \in DOMAIN queue' : ~FGt(queue'[i].lb, best_ub')
            /\ ~Called("branch")
            /\ pc' = "branch"

C6_QueueFilteredOnImprovement == [][C6_FilterStep]_vars

\* the filtering has dropped a node and kept another
C6_Witness ==
    /\ pc = "branch"
    /\ node.status = "feasible"
    /\ n_filtered > 0
    /\ Len(queue) > 0

\* C7: node_count grows by one per iteration; between iterations, and in the
\* Result, it is the number of get_next calls and of lower-bounding calls.
C7_NodeCountIsCalls ==
    /\ n_get_next = n_lb_bound + (IF pc = "lb_bound" THEN 1 ELSE 0)
    /\ pc \in {"get_next", "return", "done"} => node_count = n_get_next
    /\ pc \in {"lb_bound", "prune", "ub_eval", "ub_update", "branch", "finish"}
          => node_count + 1 = n_get_next
    /\ pc = "done" => result.iterations = n_get_next

C7_Witness ==
    /\ pc = "done"
    /\ result.iterations = 3
    /\ n_get_next = 3
    /\ n_lb_bound = 3

\* C8 (as claimed): every point passed to Problem.value is one that
\* is_feasible accepts.
C8_ValueOnlyOnFeasible ==
    (pc = "ub_update" /\ Called("value")) => is_feasible(problem, x)

\* C8 (amended): solve calls Problem.value only on the point returned by
\* UpperBoundingMethod.bound, in the iterations where is_feasible rejects
\* node.x, and does not check that point; when is_feasible rejects it,
\* MIP.value returns +inf and the point does not become the incumbent.
C8_ValueOnUpperBoundingPoint ==
    /\ pc = "ub_update" =>
          IF is_feasible(problem, node.x)
          THEN /\ calls = <<"get_next", "lb_bound", "is_feasible">>
               /\ x = node.x
               /\ ub = node.lb
          ELSE /\ calls = <<"get_next", "lb_bound", "is_feasible", "ub_bound",
                            "value">>
               /\ ~is_feasible(problem, x) => ub = PosInf
               /\ is_feasible(problem, x) => ub = Fin(f_value(problem, x))
    /\ best_x # None => is_feasible(problem, best_x)

\* value has been called on a point that is_feasible rejects
C8_Witness ==
    /\ pc = "ub_update"
    /\ Called("value")
    /\ ~is_feasible(problem, x)
    /\ ub = PosInf
    /\ best_x # None

\* a get_next call of a searching rule exercised alone
SearchStep(rule) ==
    pc = "search" /\ searching_rule = rule /\ n_get_next' = n_get_next + 1

\* the queue with its i-th node removed
Without(q, i) ==
    [k \in 1..(Len(q) - 1) |-> IF k < i THEN q[k] ELSE q[k + 1]]

\* C9: BestFirstSearch.get_next removes and returns the queued node of least
\* lb, the earliest inserted among several, and keeps the order of the rest.
C9_BestFirstStep ==
    SearchStep("BestFirst") =>
        \E i \in DOMAIN queue :
            /\ node' = queue[i]
            /\ \A j \in DOMAIN queue : FLe(queue[i].lb, queue[j].lb)
            /\ \A j \in 1..(i - 1) : FLt(queue[i].lb, queue[j].lb)
            /\ queue' = Without(queue, i)

C9_BestFirstGetNext == [][C9_BestFirstStep]_vars

\* get_next has returned the earlier of two nodes of least lb, from a queue
\* that also held a larger lb before them
C9_Witness ==
    /\ pc = "search"
    /\ searching_rule = "BestFirst"
    /\ calls = <<"get_next">>
    /\ \E i \in DOMAIN queue :
          /\ queue[i].lb = node.lb
          /\ queue[i].level > node.level
    /\ \E i \in DOMAIN queue :
          /\ FLt(node.lb, queue[i].lb)
          /\ queue[i].level < node.level

\* C10: WorstFirstSearch.get_next removes and returns the queued node of
\* greatest lb, the earliest inserted among several, and keeps the order of
\* the rest.
C10_WorstFirstStep ==
    SearchStep("WorstFirst") =>
        \E i \in DOMAIN queue :
            /\ node' = queue[i]
            /\ \A j \in DOMAIN queue : FLe(queue[j].lb, queue[i].lb)
            /\ \A j \in 1..(i - 1) : FLt(queue[j].lb, queue[i].lb)
            /\ queue' = Without(queue, i)

C10_WorstFirstGetNext == [][C10_WorstFirstStep]_vars

C10_Witness ==
    /\ pc = "search"
    /\ searching_rule = "WorstFirst"
    /\ calls = <<"get_next">>
    /\ \E i \in DOMAIN queue :
          /\ queue[i].lb = node.lb
          /\ queue[i].level > node.level
    /\ \E i \in DOMAIN queue :
          /\ FLt(queue[i].lb, node.lb)
          /\ queue[i].level < node.level

\* C11: BreadthFirstSearch is first in, first out: in any interleaving of add
\* and get_next calls, get_next returns the node added earliest among those
\* queued and removes it only.  Nodes carry the serial number of their add.
C11_BreadthFirstStep ==
    SearchStep("BreadthFirst") =>
        /\ \E i \in DOMAIN queue : node' = queue[i]
        /\ \A i \in DOMAIN queue : node'.level <= queue[i].level
        /\ \A i \in DOMAIN queue' : node'.level < queue'[i].level
        /\ Len(queue') = Len(queue) - 1
        /\ Range(queue') = Range(queue) \ {node'}

C11_BreadthFirstFIFO == [][C11_BreadthFirstStep]_vars

\* the third get_next returns the third node added, while a node added after
\* the first get_next is still queued
C11_Witness ==
    /\ pc = "search"
    /\ searching_rule = "BreadthFirst"
    /\ calls = <<"get_next">>
    /\ n_get_next = 3
    /\ node.level = 2
    /\ Len(queue) > 0

\* C12: DepthFirstSearch is last in, first out: in any interleaving of add
\* and get_next calls, get_next returns the node added latest among those
\* queued and removes it only.
C12_DepthFirstStep ==
    SearchStep("DepthFirst") =>
        /\ \E i \in DOMAIN queue : node' = queue[i]
        /\ \A i \in DOMAIN queue : node'.level >= queue[i].level
        /\ \A i \in DOMAIN queue' : node'.level > queue'[i].level
        /\ Len(queue') = Len(queue) - 1
        /\ Range(queue') = Range(queue) \ {node'}

C12_DepthFirstLIFO == [][C12_DepthFirstStep]_vars

\* after adding three nodes, the third get_next returns the first one added;
\* with a get_next between adds, an older node is returned after a newer one
C12_Witness ==
    /\ pc = "search"
    /\ searching_rule = "DepthFirst"
    /\ calls = <<"get_next">>
    /\ n_get_next = 3
    /\ node.level = 0
    /\ n_add >= 3

\* C13: on the problem with one binary variable and f(x) = x, when the root
\* lower-bounding call yields lb = 0 at x = 0, solve returns after one or two
\* iterations with status OPTIMAL, objective value 0 and solution x = 0, under
\* every searching rule.
C13_SingleVariable ==
    pc = "done" =>
        /\ result.status = "optimal"
        /\ result.objective_value = Fin(0)
        /\ result.solution = <<0>>
        /\ result.iterations \in {1, 2}
        /\ best_ub = Fin(0)
        /\ best_x = <<0>>

C13_Witness ==
    /\ pc = "done"
    /\ lb_method = "root_zero"
    /\ problem = [n |-> 1, c |-> <<1>>, b |-> 0]
    /\ searching_rule = "DepthFirst"
    /\ result.status = "optimal"
    /\ result.iterations = 1
    /\ result.solution = <<0>>

\* C14: the status solve returns is OPTIMAL, RELATIVE_OPTIMAL, TIME_LIMIT,
\* ITER_LIMIT or MEMORY_LIMIT, never RUNNING, INFEASIBLE, UNBOUNDED or ERROR;
\* a run whose queue empties without an incumbent returns OPTIMAL with
\* solution None.
C14_ReturnedStatus ==
    /\ pc \in {"return", "done"} => status \in Statuses \ {"running"}
    /\ pc = "done" =>
          /\ result.status = status
          /\ result.status \in {"optimal", "relative_optimal", "time_limit",
                                "iter_limit", "memory_limit"}
          /\ (Len(queue) = 0 /\ best_x = None) =>
                (result.status = "optimal" /\ result.solution = None)

\* the queue has emptied after branching, no incumbent was found
C14_Witness ==
    /\ pc = "done"
    /\ Len(queue) = 0
    /\ best_x = None
    /\ result.status = "optimal"
    /\ result.solution = None
    /\ result.iterations >= 3

\* C15: at the end of every iteration every queued node has lb <= best_ub,
\* the children appended by this iteration's branching included.
C15_QueueBelowBestUb ==
    (pc = "finish" \/ BetweenIterations) =>
        \A i \in DOMAIN queue : FLe(queue[i].lb, best_ub)

\* the iteration has lowered best_ub, dropped a queued node and appended
\* children with a finite lb
C15_Witness ==
    /\ pc = "finish"
    /\ Called("branch")
    /\ n_filtered > 0
    /\ IsFinite(best_ub)
    /\ Len(queue) >= 2
    /\ queue[Len(queue)].level = node.level + 1
    /\ IsFinite(queue[Len(queue)].lb)

\* the number of calls of op in the current iteration
Count(op) == Cardinality({i \in DOMAIN calls : calls[i] = op})

\* C16: every get_next call returns a node never returned before, a dequeued
\* node is never in the queue again, and the iteration that dequeues a node
\* passes it to the lower-bounding method exactly once and to branch at most
\* once.
C16_NodeHandledOnce ==
    /\ Cardinality(dequeued) = n_get_next
    /\ \A i \in DOMAIN queue : NodeId(queue[i]) \notin dequeued
    /\ \A i, j \in DOMAIN queue : NodeId(queue[i]) = NodeId(queue[j]) => i = j
    /\ node # None => NodeId(node) \in dequeued
    /\ n_lb_bound = Cardinality(dequeued) - (IF pc = "lb_bound" THEN 1 ELSE 0)
    /\ pc \in {"prune", "ub_eval", "ub_update", "branch", "finish"}
          => (Count("get_next") = 1 /\ Count("lb_bound") = 1)
    /\ Count("branch") <= 1
    /\ Called("branch") => pc = "finish"

\* three nodes have been dequeued and bounded, the last of them branched
C16_Witness ==
    /\ pc = "finish"
    /\ Called("branch")
    /\ Cardinality(dequeued) = 3
    /\ n_lb_bound = 3
    /\ Len(queue) >= 3

\* C17 (as claimed): a node whose lower-bounding call sets lb = -inf is not
\* marked PRUNED and is still in the queue when its iteration ends.
C17_KeptInQueue ==
    (pc = "finish" /\ node.lb = NegInf) =>
        /\ node.status # "pruned"
        /\ \E i \in DOMAIN queue : NodeId(queue[i]) = NodeId(node)

\* C17 (amended): a node whose lower-bounding call sets lb = -inf is never
\* marked PRUNED; it has left the queue when it is bounded and is not put
\* back; it is branched exactly when best_ub is finite after the incumbent
\* update, and its children carry lb = -inf; a queued node with lb = -inf is
\* dropped by no filtering and leaves the queue only through get_next.
C17_MinusInfStep ==
    /\ (pc \in {"ub_eval", "ub_update", "branch", "finish"} /\ node.lb = NegInf)
          => /\ node.status \in {"processed", "feasible"}
             /\ \A i \in DOMAIN queue : NodeId(queue[i]) # NodeId(node)
    /\ (pc = "finish" /\ node.lb = NegInf)
          => (Called("branch") <=> IsFinite(best_ub))
    /\ (pc = "branch" /\ node.lb = NegInf)
          => \A i \in (Len(queue) + 1)..Len(queue') : queue'[i].lb = NegInf
    /\ \A i \in DOMAIN queue :
          queue[i].lb = NegInf =>
              \/ \E j \in DOMAIN queue' : queue'[j] = queue[i]
              \/ (pc = "get_next" /\ node' = queue[i])

C17_MinusInfNode == [][C17_MinusInfStep]_vars

\* a node bounded at -inf has lowered best_ub, the filtering has dropped a
\* queued node, and its children are queued with lb = -inf
C17_Witness ==
    /\ pc = "finish"
    /\ node.lb = NegInf
    /\ node.status = "feasible"
    /\ n_filtered > 0
    /\ Called("branch")
    /\ Len(queue) >= 2
    /\ queue[Len(queue)].lb = NegInf
    /\ queue[Len(queue)].level = node.level + 1

\* both gaps between best_ub and lb exceed their tolerances, case by case:
\* for finite values d = best_ub - lb > abs_gap_tol and
\* d / max(min(|best_ub|, |lb|), 1e-16) > rel_gap_tol; an infinite gap over a
\* finite denominator exceeds both; inf - inf and inf / inf are nan, which
\* exceeds nothing
GapsExceed(bub, lb, atol, rtol) ==
    \/ /\ IsFinite(bub) /\ IsFinite(lb)
       /\ LET d == bub.v - lb.v
              a == IF bub.v < 0 THEN 0 - bub.v ELSE bub.v
              b == IF lb.v < 0 THEN 0 - lb.v ELSE lb.v
              m == IF a < b THEN a ELSE b
          IN  /\ d * atol.d > atol.n
              /\ IF m = 0 THEN d > 0 ELSE d * rtol.d > rtol.n * m
    \/ bub = PosInf /\ IsFinite(lb)
    \/ IsFinite(bub) /\ lb = NegInf

\* C18: branch is called on the dequeued node exactly when the node is not
\* pruned and both gaps, taken with best_ub after the incumbent update,
\* exceed their tolerances; the queue then gains the returned children, at
\* its end, and gains nothing in any other step.
C18_BranchStep ==
    /\ pc = "branch" =>
          IF /\ node.status # "pruned"
             /\ GapsExceed(best_ub, node.lb, abs_gap_tol, rel_gap_tol)
          THEN /\ calls' = Append(calls, "branch")
               /\ \E child_nodes \in branch(problem, node) :
                     queue' = queue \o child_nodes
          ELSE /\ calls' = calls
               /\ queue' = queue
    /\ pc \in {"get_next", "lb_bound", "prune", "ub_eval", "ub_update"} =>
          /\ \A i \in DOMAIN calls' : calls'[i] # "branch"
          /\ Len(queue') <= Len(queue)
    /\ (pc = "prune" /\ node'.status = "pruned") => pc' = "finish"

C18_BranchIffGaps == [][C18_BranchStep]_vars

\* branch has been called with finite best_ub and lb under an absolute
\* tolerance of 1, and its two children are the last nodes queued
C18_Witness ==
    /\ pc = "finish"
    /\ Called("branch")
    /\ abs_gap_tol = Tol(1, 1)
    /\ IsFinite(best_ub)
    /\ IsFinite(node.lb)
    /\ Len(queue) >= 2
    /\ queue[Len(queue)].level = node.level + 1
    /\ queue[Len(queue) - 1].level = node.level + 1

\* C19 (as claimed): when the queue is empty at the end of an iteration,
\* best_lb equals best_ub and the absolute gap is 0, whatever best_ub.
C19_ZeroGapAtExhaustion ==
    (BetweenIterations /\ Len(queue) = 0) =>
        (best_lb = best_ub /\ abs_gap = Fin(0))

\* C19 (amended): when the queue is empty at the end of an iteration, best_lb
\* equals best_ub; the absolute and the relative gap are 0 when best_ub is
\* finite, and nan (inf - inf) when best_ub is infinite; the status is
\* OPTIMAL in both cases.
C19_GapAtExhaustion ==
    (BetweenIterations /\ Len(queue) = 0) =>
        /\ best_lb = best_ub
        /\ status = "optimal"
        /\ IF IsFinite(best_ub)
           THEN abs_gap = Fin(0) /\ rel_gap.k = "fin" /\ rel_gap.n = 0
           ELSE abs_gap = NaN /\ rel_gap = QNaN

\* the queue has emptied after branching and no incumbent was found
C19_Witness ==
    /\ BetweenIterations
    /\ Len(queue) = 0
    /\ node_count >= 3
    /\ best_ub = PosInf
    /\ best_lb = PosInf
    /\ abs_gap = NaN

\* C20: with MIPBranchingRule, which fixes one more binary index per level
\* and returns [] once all are fixed, every run of solve leaves status
\* RUNNING and returns a Result, for every searching rule, with time_limit,
\* node_limit and queue_limit at their infinite defaults.
C20_Terminates == <>(pc = "done" /\ result # None /\ status # "running")

\* solve has returned after visiting the whole tree of a two-variable
\* problem, no limit being set
C20_Witness ==
    /\ pc = "done"
    /\ time_limit = PosInf
    /\ node_limit = maxsize
    /\ queue_limit = maxsize
    /\ problem.n = 2
    /\ result.iterations = 7
    /\ Len(queue) = 0

\* C21: with keeptrace, each iteration appends one record to the trace, which
\* carries the node count, the queue size, best_ub and best_lb of the end of
\* that iteration; the i-th record has node count i and the returned trace
\* has Result.iterations records.  Without keeptrace the trace stays empty.
C21_TraceStep ==
    /\ Len(trace) = (IF keeptrace THEN node_count ELSE 0)
    /\ \A i \in DOMAIN trace : trace[i].node_count = i
    /\ IF pc = "finish" /\ keeptrace
       THEN /\ Len(trace') = Len(trace) + 1
            /\ SubSeq(trace', 1, Len(trace)) = trace
            /\ LET rec == trace'[Len(trace')]
               IN  /\ rec.node_count = node_count'
                   /\ rec.node_count = Len(trace')
                   /\ rec.queue_size = Len(queue')
                   /\ rec.best_ub = best_ub'
                   /\ rec.best_lb = best_lb'
                   /\ rec.timer = timer'
       ELSE trace' = trace
    /\ pc = "return" =>
          /\ result'.trace = trace
          /\ Len(result'.trace) = (IF keeptrace THEN result'.iterations ELSE 0)

C21_TraceRecords == [][C21_TraceStep]_vars

\* a run of three iterations has returned its trace; the queue was not
\* empty at the end of the second
C21_Witness ==
    /\ pc = "done"
    /\ keeptrace
    /\ result.iterations = 3
    /\ Len(result.trace) = 3
    /\ result.trace[2].queue_size > 0
    /\ IsFinite(result.trace[3].best_ub)

\* C22: MIPBranchingRule.branch returns the empty list exactly when every
\* binary index is fixed in the node's region; otherwise it returns two
\* children of level node.level + 1 whose regions add one and the same
\* unfixed index to the parent's fixed sets, to integers_to_zero in the one
\* and to integers_to_one in the other; the parent's region is unchanged.
C22_BranchStep ==
    (pc = "branch" /\ \E k \in DOMAIN calls' : calls'[k] = "branch") =>
        LET zero == node.region.integers_to_zero
            one == node.region.integers_to_one
            fixed == Range(zero) \cup Range(one)
            ch == SubSeq(queue', Len(queue) + 1, Len(queue'))
        IN  /\ node'.region = node.region
            /\ (ch = <<>>) <=> (fixed = 1..problem.n)
            /\ ch # <<>> =>
                  /\ Len(ch) = 2
                  /\ ch[1].level = node.level + 1
                  /\ ch[2].level = node.level + 1
                  /\ \E i \in (1..problem.n) \ fixed :
                        /\ ch[1].region.integers_to_zero = zero \o <<i>>
                        /\ ch[1].region.integers_to_one = one
                        /\ ch[2].region.integers_to_zero = zero
                        /\ ch[2].region.integers_to_one = one \o <<i>>

C22_BranchChildren == [][C22_BranchStep]_vars

\* a node of level 1 of a two-variable problem has been branched: its
\* children, the last two queued, fix both indices
C22_Witness ==
    /\ pc = "finish"
    /\ Called("branch")
    /\ problem.n = 2
    /\ node.level = 1
    /\ Len(queue) >= 2
    /\ queue[Len(queue)].level = 2
    /\ Len(queue[Len(queue)].region.integers_to_one) >= 1
    /\ Len(queue[Len(queue) - 1].region.integers_to_zero) >= 1

\* C23: get_next is never called on an empty queue: whenever an iteration is
\* about to start, the status being RUNNING, the queue holds a node.
C23_GetNextOnNonEmptyQueue ==
    /\ pc = "get_next" => (status = "running" /\ Len(queue) > 0)
    /\ (BetweenIterations /\ Len(queue) = 0) => pc \in {"return", "done"}
    /\ Called("get_next") => node # None

\* a third iteration is about to start on a queue of one node
C23_Witness ==
    /\ pc = "get_next"
    /\ status = "running"
    /\ node_count = 2
    /\ Len(queue) = 1
    /\ IsFinite(best_ub)

\* C24: the returned iteration count is at least 1 and at most
\* max(1, node_limit): the root is dequeued and bounded whatever the limits,
\* and no node is dequeued once node_count has reached node_limit.
C24_IterationCount ==
    /\ pc = "done" =>
          /\ result.iterations >= 1
          /\ n_lb_bound >= 1
          /\ IsFinite(node_limit) =>
                result.iterations <=
                    (IF node_limit.v > 1 THEN node_limit.v ELSE 1)
    /\ (Called("get_next") /\ node_count > 0 /\ IsFinite(node_limit))
          => node_count < node_limit.v

\* every limit is 0 and solve has returned after bounding the root
C24_Witness ==
    /\ pc = "done"
    /\ node_limit = Fin(0)
    /\ time_limit = Fin(0)
    /\ queue_limit = Fin(0)
    /\ result.iterations = 1
    /\ n_lb_bound = 1
    /\ Len(queue) > 0

\* C25: best_x is None exactly when best_ub is +inf; best_x and best_ub
\* change in the same step only, the incumbent update, which sets them to
\* the candidate and its value; a node is marked FEASIBLE in that step and
\* in no other.
C25_IncumbentStep ==
    /\ (best_x = None) <=> (best_ub = PosInf)
    /\ (best_x' = None) <=> (best_ub' = PosInf)
    /\ best_ub' # best_ub =>
          /\ pc = "ub_update"
          /\ best_x' = x
          /\ best_ub' = ub
          /\ node'.status = "feasible"
    /\ best_x' # best_x => best_ub' # best_ub
    /\ pc = "ub_update" =>
          ((node'.status = "feasible") <=> (best_ub' # best_ub))
    /\ (pc \in {"lb_bound", "prune", "branch"} /\ node'.status = "feasible")
          => node.status = "feasible"
    /\ (pc \in {"branch", "finish"} /\ node.status = "feasible")
          => (best_x = x /\ best_ub = ub)

C25_IncumbentPair == [][C25_IncumbentStep]_vars

\* the candidate of a node below the root has become the incumbent
C25_Witness ==
    /\ pc = "branch"
    /\ node.status = "feasible"
    /\ node.level > 0
    /\ best_x = x
    /\ best_x # None
    /\ best_ub = ub
    /\ IsFinite(best_lb)

====
